---- MODULE Spec2Model ----
(***************************************************************************)
(* The generation workflow of the Workstation view: the optimistic         *)
(* generation store, the reconciliation merge of loadGenerations, the      *)
(* interval poller (startPolling / stopPolling) and the submission         *)
(* promise chain of handleGenerate, together with the backend and the      *)
(* network they talk to.                                                   *)
(***************************************************************************)
EXTENDS Integers, Sequences, FiniteSets, Bags, TLC

VARIABLES
    mounted,          \* the Workstation component instance is mounted
    shot,             \* id of the shot the view shows (shot.id)
    generations,      \* the generations state: a sequence of Generation records
    pollIntervalRef,  \* pollIntervalRef.current: 0 for null, else an interval handle
    timers,           \* the browser's active intervals: records [id, shotId]
    nextTimer,        \* the next handle setInterval returns
    now,              \* the clock, in milliseconds
    db,               \* the backend's generation rows
    nextSrv,          \* the next id the backend issues
    fetches,          \* bag of loadGenerations calls awaiting fetchGenerations
    subs,             \* bag of generateImage calls awaiting their result
    nSub,             \* number of submissions made
    nTick,            \* number of interval ticks fired
    nSwitch,          \* number of shot changes
    caps,             \* the limits of the explored run
    last,             \* what the last step did
    dialog,           \* the alert the dialog context shows: [title, message, kind]
    backgroundGridResults,      \* the URLs handed to the grid results modal
    isBackgroundGridModalOpen,  \* the grid results modal is open
    grids,            \* bag of handleGenerateBackgroundGrid calls awaiting their result
    inputs,           \* the state of the generation form (prompt, mode, files, tabs, ...)
    confirm,          \* the confirmation the dialog context asks for
    restores,         \* the handleRestore callbacks awaiting a fetchFile
    nRestore          \* number of restores asked for

vars == <<mounted, shot, generations, pollIntervalRef, timers, nextTimer, now,
          db, nextSrv, fetches, subs, nSub, nTick, nSwitch, caps, last,
          dialog, backgroundGridResults, isBackgroundGridModalOpen, grids,
          inputs, confirm, restores, nRestore>>

\* the state of the form and of a restore
formVars == <<inputs, confirm, restores, nRestore>>

\* the state of the grid results surface and of the dialog
gridVars == <<backgroundGridResults, isBackgroundGridModalOpen, grids>>

----------------------------------------------------------------------------
(* Bounds of the model *)

MaxClock == 1
MaxSubmits == 2
MaxInFlight == 2
MaxTicks == 2
MaxSwitches == 1
MaxStore == 3
MaxList == 2
MaxChars == 2
MaxRestores == 2
MaxRestoring == 2

\* The explored runs: each limits how many submissions, outstanding fetches,
\* interval ticks and shot changes one run holds, whether the view unmounts,
\* and the order in which the backend lists rows.
Cap(name, submits, inflight, ticks, switches, unmount, order, finish) ==
    [name |-> name, submits |-> submits, inflight |-> inflight, ticks |-> ticks,
     switches |-> switches, unmount |-> unmount, order |-> order, finish |-> finish]

\* an error a rejected request carries: error.response.data.detail and
\* error.message, "" standing for a missing (or empty) field, which the
\* code's || treats alike
Err(detail, message) == [detail |-> detail, message |-> message]

ErrQuota == Err("quota exceeded", "Request failed with status code 429")
ErrNetwork == Err("", "Network Error")
ErrBare == Err("", "")

\* the generation modes of the form (generationMode)
Modes == {"manual", "automatic", "storyboard_enhancer", "angles", "background_grid"}

Prompts == {"", "a cat"}

\* what the form holds when Generate is pressed
Form(mode, prompt, file) == [mode |-> mode, prompt |-> prompt, backgroundGridFile |-> file]

\* the edits the user makes to the form (modes) and the errors requests meet
\* in a run
Uses(cap, modes, errors) ==
    [name |-> cap.name, submits |-> cap.submits, inflight |-> cap.inflight,
     ticks |-> cap.ticks, switches |-> cap.switches, unmount |-> cap.unmount,
     order |-> cap.order, finish |-> cap.finish, modes |-> modes, errors |-> errors]

\* a file: its name, the URL it was fetched from ("" for a file the user
\* picked) and the HTTP status its content came with
File(name, url, status) == [name |-> name, url |-> url, status |-> status]

\* null where a File is expected
NoFile == File("", "", 0)

\* a file the user picked
Upload(name) == File(name, "", 200)

\* the fields of the shot the request builder reads; "" and <<>> stand for
\* a missing URL and an empty list
ShotUrls(storyboard_url, background_urls, style_url) ==
    [storyboard_url |-> storyboard_url, background_urls |-> background_urls,
     style_url |-> style_url]

\* what the user sets in a run: pairs <<field of the form, value>>
ModeEdits(modes) == { <<"generationMode", m>> : m \in modes }

FormEdits ==
    ModeEdits({"manual", "background_grid"}) \cup { <<"prompt", p>> : p \in Prompts }
                     \cup { <<"backgroundGridFile", Upload("grid.png")>> }

\* the shot's URLs, the restores and concurrent restores of a run
Editing(cap, urls, nRestores) ==
    [name |-> cap.name, submits |-> cap.submits, inflight |-> cap.inflight,
     ticks |-> cap.ticks, switches |-> cap.switches, unmount |-> cap.unmount,
     order |-> cap.order, finish |-> cap.finish, modes |-> cap.modes,
     errors |-> cap.errors, shot_urls |-> urls, restores |-> nRestores]

NoUrls == ShotUrls("", <<>>, "")

Caps ==
    { Editing(Uses(Cap("burst", MaxSubmits, MaxInFlight - 1, MaxTicks - 1, 0, FALSE,
                       "oldest_first", {"completed"}),
                   ModeEdits({"automatic"}), {ErrQuota}), NoUrls, 0),
      Editing(Uses(Cap("overlap", MaxSubmits - 1, MaxInFlight, MaxTicks, 0, FALSE,
                       "newest_first", {"completed", "failed"}),
                   ModeEdits({"angles"}), {ErrNetwork}), NoUrls, 0),
      Editing(Uses(Cap("navigate", MaxSubmits - 1, MaxInFlight, MaxTicks - 1, MaxSwitches,
                       TRUE, "oldest_first", {"failed"}),
                   ModeEdits({"storyboard_enhancer"}), {ErrQuota}), NoUrls, 0),
      Editing(Uses(Cap("form", MaxSubmits - 1, MaxInFlight - 1, MaxTicks - 1, 0, TRUE,
                       "newest_first", {"completed"}),
                   FormEdits, {ErrQuota, ErrNetwork, ErrBare}), NoUrls, 0) }

Shots == {"A", "B"}

TempId(t) == [ns |-> "temp", n |-> t]
SrvId(k) == [ns |-> "srv", n |-> k]

\* ref_data.auto_refs
AutoRefs(storyboard, characters, anchor, target) ==
    [storyboard |-> storyboard, characters |-> characters,
     angles_anchor |-> anchor, angles_target |-> target]

NoAutoRefs == AutoRefs("", <<>>, "", "")

\* ref_data.angles_inputs; present is FALSE when the record has none
AnglesInputs(present, angle, length, focus, background) ==
    [present |-> present, angle |-> angle, length |-> length, focus |-> focus,
     background |-> background]

NoAnglesInputs == AnglesInputs(FALSE, "", "", "", "")

\* Generation.ref_data; present is FALSE when the record has none
RefData(mode, manual_refs, auto_refs, angles_inputs) ==
    [present |-> TRUE, mode |-> mode, manual_refs |-> manual_refs,
     auto_refs |-> auto_refs, angles_inputs |-> angles_inputs]

NoRefData ==
    [present |-> FALSE, mode |-> "", manual_refs |-> <<>>,
     auto_refs |-> NoAutoRefs, angles_inputs |-> NoAnglesInputs]

Gen(id, s, st, c) ==
    [id |-> id, shot_id |-> s, status |-> st, created_at |-> c, image_url |-> "",
     ref_data |-> NoRefData]

\* the image of a completed generation
ImageUrl(id) == "image"

NoDialog == [title |-> "", message |-> "", kind |-> ""]

\* the form when the view mounts
DefaultInputs ==
    [prompt |-> "", selectedModel |-> "Google Gemini 3.5 Pro", aspectRatio |-> "16:9",
     resolution |-> "1K", generationMode |-> "manual", backgroundGridFile |-> NoFile,
     refImages |-> <<>>, selectedAutoTabs |-> <<>>,
     autoStoryboardFile |-> NoFile, autoBackgroundFile |-> NoFile,
     selectedBackgroundUrl |-> "",
     characterTabs |-> << [id |-> "char_1", name |-> "Character 1", file |-> NoFile] >>,
     autoCharacterFiles |-> {}, selectedCharacters |-> <<>>,
     anglesAngle |-> "", anglesLength |-> "", anglesFocus |-> "", anglesBackground |-> "",
     anglesAnchorFile |-> NoFile, anglesTargetFile |-> NoFile]

Alert(title, message, kind) == [title |-> title, message |-> message, kind |-> kind]

ErrMsgMessageFirst(error) ==
    IF error.message # "" THEN error.message
    ELSE IF error.detail # "" THEN error.detail
    ELSE "Unknown error"

\* error.response?.data?.detail || error.message || 'Unknown error'
ErrMsg(error) ==
    IF error.detail # "" THEN error.detail
    ELSE IF error.message # "" THEN error.message
    ELSE "Unknown error"

\* what POST /generation/background-grid answers
GridUrls == <<"grid-1", "grid-2">>

\* The rows the backend may hold when the view opens.
InitRows == { Gen(SrvId(1), "A", "pending", 0) }

FirstNewSrv == Cardinality(InitRows) + 1

----------------------------------------------------------------------------
(* Sequences of generation records *)

Range(s) == { s[i] : i \in DOMAIN s }

Ids(s) == { s[i].id : i \in DOMAIN s }

NoDupIds(s) == \A i, j \in DOMAIN s : s[i].id = s[j].id => i = j

SortedDesc(s) == \A i, j \in DOMAIN s : i < j => s[i].created_at >= s[j].created_at

AnyPending(s) == \E i \in DOMAIN s : s[i].status = "pending"

----------------------------------------------------------------------------
(* loadGenerations: the reconciliation merge *)

\* prev.filter(g => g.status === 'pending' && !serverIds.has(g.id))
MissingPendingTempOnly(prev, data) ==
    SelectSeq(prev, LAMBDA g : g.id.ns = "temp" /\ g.id \notin Ids(data))

MissingPending(prev, data) ==
    SelectSeq(prev, LAMBDA g : g.status = "pending" /\ g.id \notin Ids(data))

\* uniqueMap.set(g.id, g) for each g, then Array.from(uniqueMap.values()):
\* a Map keeps a key at the place of its first insertion and the value of
\* its last one.
RECURSIVE UniqueFrom(_, _)
UniqueFrom(s, i) ==
    IF i > Len(s) THEN <<>>
    ELSE LET firstHere == \A j \in 1..(i - 1) : s[j].id # s[i].id
             lastIdx == CHOOSE k \in i..Len(s) :
                            /\ s[k].id = s[i].id
                            /\ \A m \in (k + 1)..Len(s) : s[m].id # s[i].id
         IN (IF firstHere THEN <<s[lastIdx]>> ELSE <<>>) \o UniqueFrom(s, i + 1)

UniqueByIdKeepAll(s) == s

UniqueByIdFirstWins(s) ==
    SelectSeq(s, LAMBDA g : g = s[CHOOSE k \in DOMAIN s : s[k].id = g.id /\ \A m \in 1..(k - 1) : s[m].id # g.id])

UniqueById(s) == UniqueFrom(s, 1)

\* Array.prototype.sort with (a, b) => time(b) - time(a): a stable sort,
\* newest first.
RECURSIVE SortFrom(_, _, _)
SortFrom(s, i, acc) ==
    IF i > Len(s) THEN acc
    ELSE LET k == Cardinality({ j \in DOMAIN acc : acc[j].created_at >= s[i].created_at })
         IN SortFrom(s, i + 1,
                     SubSeq(acc, 1, k) \o <<s[i]>> \o SubSeq(acc, k + 1, Len(acc)))

RECURSIVE SortTiesReversedFrom(_, _, _)
SortTiesReversedFrom(s, i, acc) ==
    IF i > Len(s) THEN acc
    ELSE LET k == Cardinality({ j \in DOMAIN acc : acc[j].created_at > s[i].created_at })
         IN SortTiesReversedFrom(s, i + 1,
                     SubSeq(acc, 1, k) \o <<s[i]>> \o SubSeq(acc, k + 1, Len(acc)))

SortByCreatedAtDescTiesReversed(s) == SortTiesReversedFrom(s, 1, <<>>)

SortByCreatedAtDesc(s) == SortFrom(s, 1, <<>>)

\* the updater handed to setGenerations
MergeGenerations(prev, data) ==
    LET missingPending == MissingPending(prev, data)
    IN IF Len(missingPending) > 0
       THEN SortByCreatedAtDesc(UniqueById(missingPending \o data))
       ELSE data

HasPendingInAll(data) == \A i \in DOMAIN data : data[i].status = "pending"

\* data.some(g => g.status === 'pending')
HasPending(data) == AnyPending(data)

\* the try branch: the new store and the value returned
LoadSucceeded(prev, data) ==
    [gens |-> MergeGenerations(prev, data), ret |-> HasPending(data)]

LoadFailedReportsPending(prev) == [gens |-> prev, ret |-> TRUE]

\* the catch branch
LoadFailed(prev) == [gens |-> prev, ret |-> FALSE]

----------------------------------------------------------------------------
(* The poll scheduler; a poller state is [ref, timers, next] *)

Poller == [ref |-> pollIntervalRef, timers |-> timers, next |-> nextTimer]

StopPollingRefOnly(p) == [p EXCEPT !.ref = 0]

StopPolling(p) ==
    IF p.ref # 0
    THEN [p EXCEPT !.timers = { t \in p.timers : t.id # p.ref }, !.ref = 0]
    ELSE p

StartPollingNever(p, shotId) == p

StartPollingAlways(p, shotId) ==
    [ref |-> p.next,
     timers |-> p.timers \cup { [id |-> p.next, shotId |-> shotId] },
     next |-> p.next + 1]

StartPolling(p, shotId) ==
    IF p.ref # 0 THEN p
    ELSE [ref |-> p.next,
          timers |-> p.timers \cup { [id |-> p.next, shotId |-> shotId] },
          next |-> p.next + 1]

SetPoller(p) ==
    /\ pollIntervalRef' = p.ref
    /\ timers' = p.timers
    /\ nextTimer' = p.next

\* a state update of an unmounted component is dropped
SetGenerations(new) == generations' = IF mounted THEN new ELSE generations

----------------------------------------------------------------------------
(* The backend and the network *)

\* a before b in the backend's listing order
ListedBefore(a, b, order) ==
    LET older == \/ a.created_at < b.created_at
                 \/ a.created_at = b.created_at /\ a.id.n < b.id.n
    IN IF order = "oldest_first" THEN older ELSE ~older

\* what GET /generation/<shotId> answers: the rows of the shot, in the
\* backend's order
RECURSIVE ListRows(_, _)
ListRows(S, order) ==
    IF S = {} THEN <<>>
    ELSE LET first == CHOOSE x \in S : \A y \in S \ {x} : ListedBefore(x, y, order)
         IN <<first>> \o ListRows(S \ {first}, order)

ServerList(rows, shotId, order) ==
    ListRows({ r \in rows : r.shot_id = shotId }, order)

Step(op, from, ret) == [op |-> op, from |-> from, ret |-> ret]

NoId == [ns |-> "none", n |-> 0]

\* loadGenerations(shotId) reaches its await
IssueFetch(shotId, from, timer) ==
    /\ BagCardinality(fetches) < caps.inflight
    /\ fetches' = fetches (+) SetToBag({ [shotId |-> shotId, from |-> from, timer |-> timer,
                                          data |-> ServerList(db, shotId, caps.order)] })

----------------------------------------------------------------------------
(* Restore: the generations of the history and the files behind their URLs *)

\* a generation as handleRestore reads it; resolution "" when it has none
Past(prompt, resolution, ref_data) ==
    [prompt |-> prompt, model |-> "gemini-3-pro-image-preview", aspect_ratio |-> "1:1",
     resolution |-> resolution, ref_data |-> ref_data]

ManualRef(name, url) == [name |-> name, url |-> url, type |-> "image/png"]

CharRef(name, url) == [name |-> name, url |-> url]

\* the character references of a record: the first of them cannot be reached
CharRefs(k) ==
    [i \in 1..k |-> CharRef("character-" \o ToString(i),
                            IF i = 1 THEN "down.png" ELSE "character.png")]

\* the generations the user may restore
History ==
    { Past("hero walk cycle", "2K",
           RefData("manual", <<ManualRef("a", "a.png"), ManualRef("b", "missing.png")>>,
                   NoAutoRefs, NoAnglesInputs)),
      Past("night street", "",
           RefData("manual", <<ManualRef("c", "down.png"), ManualRef("d", "d.png")>>,
                   NoAutoRefs, NoAnglesInputs)),
      Past("no references", "2K", RefData("manual", <<>>, NoAutoRefs, NoAnglesInputs)),
      Past("low angle", "2K",
           RefData("angles", <<>>, AutoRefs("", <<>>, "anchor.png", ""),
                   AnglesInputs(TRUE, "low", "", "face", ""))),
      Past("bare angle", "2K", RefData("angles", <<>>, NoAutoRefs, NoAnglesInputs)),
      Past("sketch", "2K",
           RefData("storyboard_enhancer", <<>>, AutoRefs("sb.png", <<>>, "", ""),
                   NoAnglesInputs)),
      Past("before references", "2K", NoRefData) }
    \cup { Past("scene", "2K",
                RefData("automatic", <<>>, AutoRefs(sb, CharRefs(k), "", ""), NoAnglesInputs)) :
             sb \in {"", "sb.png"}, k \in 0..MaxChars }

\* no confirmation is asked for
NoConfirm == [open |-> FALSE, gen |-> Past("", "", NoRefData)]

\* what a URL answers: 200 with the image, 404 with an error page, or 0
\* when the host cannot be reached
UrlAnswer(url) ==
    CASE url = "missing.png" -> 404
      [] url = "down.png" -> 0
      [] OTHER -> 200

\* fetchFile: fetch rejects only when the host cannot be reached; any
\* answer, a 404 too, becomes a File
FetchFile(url, name) ==
    IF UrlAnswer(url) = 0 THEN NoFile ELSE File(name, url, UrlAnswer(url))

\* `char_restored_${Date.now()}_${i}`
CharTabId(t, i) == "char_restored_" \o ToString(t) \o "_" \o ToString(i)

\* a restore callback at an await: where it is (pc, i) and its locals
Proc(gen, pc, i, files, newFiles, newTabs, newSelectedTabs) ==
    [gen |-> gen, pc |-> pc, i |-> i, files |-> files, newFiles |-> newFiles,
     newTabs |-> newTabs, newSelectedTabs |-> newSelectedTabs]

Await(gen, pc) == Proc(gen, pc, 1, <<>>, {}, <<>>, <<>>)

\* the callback p of the n-th restore asked for
Numbered(p, n) ==
    [gen |-> p.gen, pc |-> p.pc, i |-> p.i, files |-> p.files, newFiles |-> p.newFiles,
     newTabs |-> p.newTabs, newSelectedTabs |-> p.newSelectedTabs, n |-> n]

\* a stretch of the callback: the form it leaves and the await it stops at
Ran(inp, next) == [inp |-> inp, next |-> next]

\* automatic mode from newSelectedTabs.push('background') on
RestoreCharacters(inp, gen, selected, t) ==
    LET chars == gen.ref_data.auto_refs.characters
        newTabs == [i \in DOMAIN chars |->
                      [id |-> CharTabId(t, i - 1), name |-> "Character " \o ToString(i),
                       file |-> NoFile]]
    IN IF Len(chars) > 0
       THEN Ran([inp EXCEPT !.characterTabs = newTabs],
                { Proc(gen, "characters", 1, <<>>, {}, newTabs, selected \o <<"background">>) })
       ELSE Ran([inp EXCEPT !.selectedAutoTabs = selected \o <<"background">>], {})

\* angles mode from the target reference on
RestoreTarget(inp, gen) ==
    IF gen.ref_data.auto_refs.angles_target # ""
    THEN Ran(inp, { Await(gen, "target") })
    ELSE Ran([inp EXCEPT !.anglesTargetFile = NoFile], {})

\* angles mode from the anchor reference on
RestoreAnchor(inp, gen) ==
    IF gen.ref_data.auto_refs.angles_anchor # ""
    THEN Ran(inp, { Await(gen, "anchor") })
    ELSE RestoreTarget([inp EXCEPT !.anglesAnchorFile = NoFile], gen)

\* if (inputs) { setAnglesAngle(inputs.angle || ''); ... }
RestoreAnglesInputs(inp, ai) ==
    IF ai.present
    THEN [inp EXCEPT !.anglesAngle = ai.angle, !.anglesLength = ai.length,
                     !.anglesFocus = ai.focus, !.anglesBackground = ai.background]
    ELSE inp

\* the callback from its start to its first await
RestoreStart(inp, gen, t) ==
    LET rd == gen.ref_data
        base == [inp EXCEPT !.prompt = gen.prompt, !.selectedModel = gen.model,
                            !.aspectRatio = gen.aspect_ratio,
                            !.resolution = IF gen.resolution # "" THEN gen.resolution
                                                                  ELSE "1K"]
        moded == [base EXCEPT !.generationMode = rd.mode]
    IN IF ~rd.present THEN Ran(base, {})
       ELSE CASE rd.mode = "manual" ->
                   IF Len(rd.manual_refs) > 0 THEN Ran(moded, { Await(gen, "manual") })
                   ELSE Ran([moded EXCEPT !.refImages = <<>>], {})
              [] rd.mode = "automatic" ->
                   IF rd.auto_refs.storyboard # "" THEN Ran(moded, { Await(gen, "storyboard") })
                   ELSE RestoreCharacters(moded, gen, <<>>, t)
              [] rd.mode = "angles" ->
                   RestoreAnchor(RestoreAnglesInputs(moded, rd.angles_inputs), gen)
              [] rd.mode = "storyboard_enhancer" ->
                   IF rd.auto_refs.storyboard # "" THEN Ran(moded, { Await(gen, "enhancer") })
                   ELSE Ran(moded, {})
              [] OTHER -> Ran(moded, {})

\* the callback from the await p to its next await
RestoreResume(inp, p, t) ==
    LET rd == p.gen.ref_data IN
    CASE p.pc = "manual" ->
           LET ref == rd.manual_refs[p.i]
               f == FetchFile(ref.url, ref.name)
               files == IF f # NoFile THEN Append(p.files, f) ELSE p.files
           IN IF p.i < Len(rd.manual_refs)
              THEN Ran(inp, { [p EXCEPT !.i = p.i + 1, !.files = files] })
              ELSE Ran([inp EXCEPT !.refImages = files], {})
      [] p.pc = "storyboard" ->
           RestoreCharacters(
              [inp EXCEPT !.autoStoryboardFile =
                              FetchFile(rd.auto_refs.storyboard, "restored_storyboard.png")],
              p.gen, <<"storyboard">>, t)
      [] p.pc = "characters" ->
           LET charRef == rd.auto_refs.characters[p.i]
               id == p.newTabs[p.i].id
               newFiles == p.newFiles \cup
                              { [id |-> id, file |-> FetchFile(charRef.url, charRef.name)] }
               selected == Append(p.newSelectedTabs, id)
           IN IF p.i < Len(rd.auto_refs.characters)
              THEN Ran(inp, { [p EXCEPT !.i = p.i + 1, !.newFiles = newFiles,
                                        !.newSelectedTabs = selected] })
              ELSE Ran([inp EXCEPT !.autoCharacterFiles = newFiles,
                                   !.selectedAutoTabs = selected], {})
      [] p.pc = "anchor" ->
           RestoreTarget(
              [inp EXCEPT !.anglesAnchorFile =
                              FetchFile(rd.auto_refs.angles_anchor, "restored_anchor.png")],
              p.gen)
      [] p.pc = "target" ->
           Ran([inp EXCEPT !.anglesTargetFile =
                               FetchFile(rd.auto_refs.angles_target, "restored_target.png")],
               {})
      [] OTHER ->
           Ran([inp EXCEPT !.autoStoryboardFile =
                               FetchFile(rd.auto_refs.storyboard, "restored_storyboard.png"),
                           !.selectedAutoTabs = <<"storyboard">>], {})

----------------------------------------------------------------------------
(* Initial state: the view has mounted on shot A with an empty store and   *)
(* its load effect has called loadGenerations(shot.id).                    *)

Init ==
    /\ mounted = TRUE
    /\ shot = "A"
    /\ generations = <<>>
    /\ pollIntervalRef = 0
    /\ timers = {}
    /\ nextTimer = 1
    /\ now = 0
    /\ db = InitRows
    /\ caps \in Caps
    /\ nextSrv = FirstNewSrv
    /\ subs = EmptyBag
    /\ nSub = 0
    /\ nTick = 0
    /\ nSwitch = 0
    /\ fetches = SetToBag({ [shotId |-> "A", from |-> "effect", timer |-> 0,
                             data |-> ServerList(InitRows, "A", caps.order)] })
    /\ last = Step("mount", "effect", FALSE)
    /\ dialog = NoDialog
    /\ backgroundGridResults = <<>>
    /\ isBackgroundGridModalOpen = FALSE
    /\ grids = EmptyBag
    /\ inputs = DefaultInputs
    /\ confirm = NoConfirm
    /\ restores = {}
    /\ nRestore = 0

----------------------------------------------------------------------------
(* Environment *)

\* a reading of the clock: time may have passed since the last one
ClockReadings == { t \in {now, now + 1} : t <= MaxClock }

\* POST /generation/create is handled by the backend
ServerCreate(s) ==
    /\ s.resp = "none"
    /\ \E outcome \in {"ok", "ok_noid", "nosuccess", "reject"} :
       \E error \in IF outcome = "reject" THEN caps.errors ELSE {ErrBare} :
         /\ subs' = (subs (-) SetToBag({s})) (+)
                    SetToBag({ [s EXCEPT !.resp = outcome,
                                         !.err = error,
                                         !.gid = IF outcome = "ok" THEN SrvId(nextSrv)
                                                                   ELSE NoId] })
         /\ IF outcome \in {"ok", "ok_noid"}
            THEN /\ db' = db \cup { Gen(SrvId(nextSrv), s.shot, "pending", now) }
                 /\ nextSrv' = nextSrv + 1
            ELSE UNCHANGED <<db, nextSrv>>
    /\ last' = Step("create", "env", FALSE)
    /\ UNCHANGED <<mounted, shot, generations, pollIntervalRef, timers, nextTimer,
                   now, fetches, nSub, nTick, nSwitch, caps, dialog, gridVars, formVars>>

\* the backend finishes processing a generation
ServerFinish(r) ==
    /\ r.status = "pending"
    /\ \E st \in caps.finish :
         db' = (db \ {r}) \cup
               { [r EXCEPT !.status = st,
                           !.image_url = IF st = "completed" THEN ImageUrl(r.id) ELSE ""] }
    /\ last' = Step("finish", "env", FALSE)
    /\ UNCHANGED <<mounted, shot, generations, pollIntervalRef, timers, nextTimer,
                   now, nextSrv, fetches, subs, nSub, nTick, nSwitch, caps,
                   dialog, gridVars, formVars>>

----------------------------------------------------------------------------
(* The view *)

\* a state update of the form; one of an unmounted component is dropped
SetInputs(new) == inputs' = IF mounted THEN new ELSE inputs

\* the user changes a field of the form: the setters handed to the panels
SetInput(field, value) ==
    /\ mounted
    /\ inputs[field] # value
    /\ inputs' = [inputs EXCEPT ![field] = value]
    /\ last' = Step("edit", field, FALSE)
    /\ UNCHANGED <<mounted, shot, generations, pollIntervalRef, timers, nextTimer, now,
                   db, nextSrv, fetches, subs, nSub, nTick, nSwitch, caps, dialog,
                   gridVars, confirm, restores, nRestore>>

\* the form as handleGenerate reads it
Forms == { Form(inputs.generationMode, inputs.prompt, inputs.backgroundGridFile # NoFile) }

InSeq(x, s) == \E i \in DOMAIN s : s[i] = x

\* autoCharacterFiles[id]
CharFile(files, id) ==
    IF \E e \in files : e.id = id THEN (CHOOSE e \in files : e.id = id).file ELSE NoFile

\* the file of a character tab: the uploaded one, else the tab's own
TabFile(inp, tab) ==
    IF CharFile(inp.autoCharacterFiles, tab.id) # NoFile
    THEN CharFile(inp.autoCharacterFiles, tab.id)
    ELSE tab.file

\* the resolved automatic inputs: files and fallback URLs
AutoInputs(storyboard, storyboardUrl, background, backgroundUrl, characters, charactersUrls) ==
    [auto_storyboard |-> storyboard, auto_storyboard_url |-> storyboardUrl,
     auto_background |-> background, auto_background_url |-> backgroundUrl,
     auto_characters |-> characters, auto_characters_urls |-> charactersUrls]

ResolveInputsUrlFirst(inp, urls) ==
    AutoInputs(NoFile, urls.storyboard_url, NoFile,
               IF Len(urls.background_urls) > 0 THEN urls.background_urls[1] ELSE "",
               <<>>, <<>>)

\* "Prepare Auto Inputs"
ResolveInputs(inp, urls) ==
    LET selected(id) == InSeq(id, inp.selectedAutoTabs)
        chosen == SelectSeq(inp.characterTabs, LAMBDA tab : selected(tab.id))
        withFile == SelectSeq(chosen, LAMBDA tab : TabFile(inp, tab) # NoFile)
        withStyle == SelectSeq(chosen, LAMBDA tab : /\ TabFile(inp, tab) = NoFile
                                                     /\ tab.id = "char_1"
                                                     /\ urls.style_url # "")
        links == SelectSeq(inp.selectedCharacters, LAMBDA link : link # "")
    IN CASE inp.generationMode = "automatic" ->
              AutoInputs(
                 IF selected("storyboard") THEN inp.autoStoryboardFile ELSE NoFile,
                 IF selected("storyboard") /\ inp.autoStoryboardFile = NoFile
                 THEN urls.storyboard_url ELSE "",
                 IF selected("background") THEN inp.autoBackgroundFile ELSE NoFile,
                 IF selected("background") /\ inp.autoBackgroundFile = NoFile
                 THEN (IF inp.selectedBackgroundUrl # "" THEN inp.selectedBackgroundUrl
                       ELSE IF Len(urls.background_urls) > 0 THEN urls.background_urls[1]
                       ELSE "")
                 ELSE "",
                 [i \in DOMAIN withFile |-> TabFile(inp, withFile[i])],
                 [i \in DOMAIN withStyle |-> urls.style_url] \o links)
         [] inp.generationMode = "storyboard_enhancer" ->
              AutoInputs(inp.autoStoryboardFile,
                         IF inp.autoStoryboardFile = NoFile THEN urls.storyboard_url ELSE "",
                         NoFile, "", <<>>, <<>>)
         [] OTHER -> AutoInputs(NoFile, "", NoFile, "", <<>>, <<>>)

\* the argument of generateImage
Payload(inp, shotId, auto) ==
    [prompt |-> inp.prompt, mode |-> inp.generationMode, shot_id |-> shotId,
     aspect_ratio |-> inp.aspectRatio, resolution |-> inp.resolution,
     ref_images |-> inp.refImages,
     auto_storyboard |-> auto.auto_storyboard,
     auto_storyboard_url |-> auto.auto_storyboard_url,
     auto_background |-> auto.auto_background,
     auto_background_url |-> auto.auto_background_url,
     auto_characters |-> auto.auto_characters,
     auto_characters_urls |-> auto.auto_characters_urls,
     angles_angle |-> inp.anglesAngle, angles_length |-> inp.anglesLength,
     angles_focus |-> inp.anglesFocus, angles_background |-> inp.anglesBackground,
     angles_anchor |-> inp.anglesAnchorFile, angles_target |-> inp.anglesTargetFile]

\* the form data generateImage posts: a field is appended when it is set,
\* and a fallback URL only when its file is not
FormData(payload) ==
    [payload EXCEPT
       !.auto_storyboard_url = IF payload.auto_storyboard # NoFile THEN "" ELSE @,
       !.auto_background_url = IF payload.auto_background # NoFile THEN "" ELSE @]

TempRefDataManual(mode) == RefData("manual", <<>>, NoAutoRefs, NoAnglesInputs)

\* the ref_data of the optimistic record
TempRefData(mode) == RefData(mode, <<>>, NoAutoRefs, NoAnglesInputs)

\* generationMode === 'manual' && !prompt
ManualWithoutPrompt(form) == form.mode = "manual" /\ form.prompt = ""

\* generationMode === 'background_grid' && !backgroundGridFile
GridWithoutFile(form) == form.mode = "background_grid" /\ ~form.backgroundGridFile

\* handleGenerate returns at one of its validations
HandleGenerateBlocked(form) ==
    /\ ManualWithoutPrompt(form) \/ GridWithoutFile(form)
    /\ dialog' = IF GridWithoutFile(form)
                 THEN Alert("Error", "Please upload a base background image.", "warning")
                 ELSE dialog
    /\ last' = Step("blocked", form.mode, FALSE)
    /\ UNCHANGED <<mounted, shot, generations, pollIntervalRef, timers, nextTimer, now,
                   db, nextSrv, fetches, subs, nSub, nTick, nSwitch, caps, gridVars, formVars>>

\* the background_grid branch up to its await
HandleGenerateGridOptimistic(form) ==
    /\ form.mode = "background_grid" /\ form.backgroundGridFile
    /\ nSub < caps.submits
    /\ nSub' = nSub + 1
    /\ grids' = grids (+) SetToBag({ [shot |-> shot, context |-> form.prompt] })
    /\ generations' = <<Gen(TempId(now), shot, "pending", now)>> \o generations
    /\ last' = Step("grid", form.mode, FALSE)
    /\ UNCHANGED <<mounted, shot, pollIntervalRef, timers, nextTimer, now,
                   db, nextSrv, fetches, subs, nTick, nSwitch, caps, dialog,
                   backgroundGridResults, isBackgroundGridModalOpen, formVars>>

HandleGenerateGrid(form) ==
    /\ form.mode = "background_grid" /\ form.backgroundGridFile
    /\ nSub < caps.submits
    /\ nSub' = nSub + 1
    /\ grids' = grids (+) SetToBag({ [shot |-> shot, context |-> form.prompt] })
    /\ last' = Step("grid", form.mode, FALSE)
    /\ UNCHANGED <<mounted, shot, generations, pollIntervalRef, timers, nextTimer, now,
                   db, nextSrv, fetches, subs, nTick, nSwitch, caps, dialog,
                   backgroundGridResults, isBackgroundGridModalOpen, formVars>>

\* the optimistic record: id temp-<Date.now()>, the open shot, pending, no image
TempGen(t, shotId) == Gen(TempId(t), shotId, "pending", t)

InsertTempReplacing(prev, tempGen) == <<tempGen>>

\* prev => [tempGen, ...prev]
InsertTemp(prev, tempGen) == <<tempGen>> \o prev

\* the other modes, up to the generateImage call
HandleGenerateSubmit(form) ==
    /\ ~ManualWithoutPrompt(form)
    /\ form.mode # "background_grid"
    /\ nSub < caps.submits
    /\ \E t \in ClockReadings :
         LET tempGen == [TempGen(t, shot) EXCEPT !.ref_data = TempRefData(form.mode)]
         IN /\ now' = t
            /\ SetGenerations(InsertTemp(generations, tempGen))
            /\ subs' = subs (+) SetToBag({ [tempId |-> tempGen.id, tempGen |-> tempGen,
                                            shot |-> shot, resp |-> "none", gid |-> NoId,
                                            err |-> ErrBare,
                                            payload |-> FormData(Payload(inputs, shot,
                                                ResolveInputs(inputs, caps.shot_urls)))] })
    /\ last' = Step("insert", form.mode, FALSE)
    /\ nSub' = nSub + 1
    /\ UNCHANGED <<mounted, shot, pollIntervalRef, timers, nextTimer,
                   db, nextSrv, fetches, nTick, nSwitch, caps, dialog, gridVars, formVars>>

\* the Generate button is pressed
HandleGenerate ==
    /\ mounted
    /\ \E form \in Forms :
         \/ HandleGenerateBlocked(form)
         \/ HandleGenerateGrid(form)
         \/ HandleGenerateSubmit(form)

\* handleGenerateBackgroundGrid settles: the rest of the background_grid branch
ResolveGrid(g) ==
    /\ grids' = grids (-) SetToBag({g})
    /\ \/ /\ backgroundGridResults' = IF mounted THEN GridUrls ELSE backgroundGridResults
          /\ isBackgroundGridModalOpen' = IF mounted THEN TRUE ELSE isBackgroundGridModalOpen
          /\ last' = Step("gridresults", "grid", FALSE)
          /\ UNCHANGED dialog
       \/ \E error \in caps.errors :
            /\ dialog' = Alert("Error",
                               "Background Grid Generation failed: " \o ErrMsg(error),
                               "danger")
            /\ last' = Step("gridfailed", "grid", FALSE)
            /\ UNCHANGED <<backgroundGridResults, isBackgroundGridModalOpen>>
    /\ UNCHANGED <<mounted, shot, generations, pollIntervalRef, timers, nextTimer, now,
                   db, nextSrv, fetches, subs, nSub, nTick, nSwitch, caps, formVars>>

\* the grid results modal is closed
CloseGridModal ==
    /\ mounted
    /\ isBackgroundGridModalOpen
    /\ isBackgroundGridModalOpen' = FALSE
    /\ last' = Step("closegrid", "view", FALSE)
    /\ UNCHANGED <<mounted, shot, generations, pollIntervalRef, timers, nextTimer, now,
                   db, nextSrv, fetches, subs, nSub, nTick, nSwitch, caps, dialog,
                   backgroundGridResults, grids, formVars>>

\* the updater of the id upgrade
UpgradeTemp(prev, tempGen, gid) ==
    <<[tempGen EXCEPT !.id = gid, !.status = "pending"]>>
        \o SelectSeq(prev, LAMBDA g : g.id # tempGen.id)

\* the updater of the rollback
RemoveTemp(prev, tempId) == SelectSeq(prev, LAMBDA g : g.id # tempId)

\* the .then / .catch of generateImage, up to the await of loadGenerations
ResolveSubmit(s) ==
    /\ s.resp # "none"
    /\ subs' = subs (-) SetToBag({s})
    /\ \/ /\ s.resp = "ok"
          /\ SetGenerations(UpgradeTemp(generations, s.tempGen, s.gid))
          /\ IssueFetch(s.shot, "submit", 0)
          /\ last' = Step("upgrade", "submit", FALSE)
          /\ UNCHANGED dialog
       \/ /\ s.resp = "ok_noid"
          /\ IssueFetch(s.shot, "submit", 0)
          /\ last' = Step("noupgrade", "submit", FALSE)
          /\ UNCHANGED <<generations, dialog>>
       \/ /\ s.resp = "nosuccess"
          /\ last' = Step("nosuccess", "submit", FALSE)
          /\ UNCHANGED <<generations, fetches, dialog>>
       \/ /\ s.resp = "reject"
          /\ SetGenerations(RemoveTemp(generations, s.tempId))
          /\ dialog' = Alert("Error", "Failed to start generation: " \o ErrMsg(s.err),
                             "danger")
          /\ last' = Step("rollback", "submit", FALSE)
          /\ UNCHANGED fetches
    /\ UNCHANGED <<mounted, shot, pollIntervalRef, timers, nextTimer, now,
                   db, nextSrv, nSub, nTick, nSwitch, caps, gridVars, formVars>>

\* an interval fires: its callback calls loadGenerations(shotId)
IntervalCallback(t) ==
    /\ IssueFetch(t.shotId, "tick", t.id)
    /\ last' = Step("tick", "tick", FALSE)
    /\ UNCHANGED <<mounted, shot, generations, pollIntervalRef, timers, nextTimer,
                   now, db, nextSrv, subs, nSub, nSwitch, caps, dialog, gridVars, formVars>>

\* one of the ticks a run counts
TimerTick(t) ==
    /\ nTick < caps.ticks
    /\ nTick' = nTick + 1
    /\ IntervalCallback(t)

\* fetchGenerations settles: the rest of loadGenerations and of its caller
FetchSettles(f, ok) ==
    /\ fetches' = fetches (-) SetToBag({f})
    /\ LET res == IF ok THEN LoadSucceeded(generations, f.data)
                        ELSE LoadFailed(generations)
       IN /\ SetGenerations(res.gens)
          /\ SetPoller(CASE f.from = "tick" ->
                                IF ~res.ret THEN StopPolling(Poller) ELSE Poller
                         [] f.from = "submit" -> StartPolling(Poller, f.shotId)
                         [] OTHER -> Poller)
          /\ last' = Step(IF ok THEN "merge" ELSE "fetchfail", f.from, res.ret)
    /\ UNCHANGED <<mounted, shot, now, db, nextSrv, subs, nSub, nTick, nSwitch, caps,
                   dialog, gridVars, formVars>>

\* the request succeeds or fails
DeliverFetch(f) == \E ok \in BOOLEAN : FetchSettles(f, ok)

\* the shot of the view changes: the load effect runs for the new shot
SwitchShot(s) ==
    /\ mounted
    /\ s # shot
    /\ nSwitch < caps.switches
    /\ nSwitch' = nSwitch + 1
    /\ shot' = s
    /\ IssueFetch(s, "effect", 0)
    /\ last' = Step("switch", "effect", FALSE)
    /\ UNCHANGED <<mounted, generations, pollIntervalRef, timers, nextTimer, now,
                   db, nextSrv, subs, nSub, nTick, caps, dialog, gridVars, formVars>>

\* the cleanup of the unmount effect
Unmount ==
    /\ mounted
    /\ caps.unmount
    /\ mounted' = FALSE
    /\ SetPoller(StopPolling(Poller))
    /\ last' = Step("unmount", "effect", FALSE)
    /\ UNCHANGED <<shot, generations, now, db, nextSrv, fetches, subs, nSub, nTick,
                   nSwitch, caps, dialog, gridVars, formVars>>

Next ==
    \/ \E s \in BagToSet(subs) : ServerCreate(s)
    \/ \E r \in db : ServerFinish(r)
    \/ HandleGenerate
    \/ \E s \in BagToSet(subs) : ResolveSubmit(s)
    \/ \E t \in timers : TimerTick(t)
    \/ \E f \in BagToSet(fetches) : DeliverFetch(f)
    \/ \E s \in Shots : SwitchShot(s)
    \/ Unmount
    \/ \E g \in BagToSet(grids) : ResolveGrid(g)
    \/ CloseGridModal
    \/ \E e \in caps.modes : SetInput(e[1], e[2])

Spec == Init /\ [][Next]_vars

----------------------------------------------------------------------------
(* The form: what a submission sends for the inputs the user has set, and  *)
(* what restoring a generation of the history puts back into the form.     *)

\* handleRestore: asks for a confirmation and returns
HandleRestoreUnconfirmed(gen) ==
    /\ mounted
    /\ ~confirm.open
    /\ nRestore < caps.restores
    /\ nRestore' = nRestore + 1
    /\ confirm' = [open |-> TRUE, gen |-> gen]
    /\ SetInputs(RestoreStart(inputs, gen, now).inp)
    /\ last' = Step("ask", "restore", FALSE)
    /\ UNCHANGED <<mounted, shot, generations, pollIntervalRef, timers, nextTimer, now,
                   db, nextSrv, fetches, subs, nSub, nTick, nSwitch, caps, dialog,
                   gridVars, restores>>

HandleRestore(gen) ==
    /\ mounted
    /\ ~confirm.open
    /\ nRestore < caps.restores
    /\ nRestore' = nRestore + 1
    /\ confirm' = [open |-> TRUE, gen |-> gen]
    /\ last' = Step("ask", "restore", FALSE)
    /\ UNCHANGED <<mounted, shot, generations, pollIntervalRef, timers, nextTimer, now,
                   db, nextSrv, fetches, subs, nSub, nTick, nSwitch, caps, dialog,
                   gridVars, inputs, restores>>

\* the callback handed to the confirmation runs to its first await
RestoreCallback(gen) ==
    \E t \in ClockReadings :
        LET ran == RestoreStart(inputs, gen, t) IN
        /\ Cardinality(restores) < MaxRestoring
        /\ now' = t
        /\ SetInputs(ran.inp)
        /\ restores' = restores \cup { Numbered(p, nRestore) : p \in ran.next }
        /\ last' = Step(IF ran.next = {} THEN "restored" ELSE "restoring", "confirm", FALSE)
        /\ UNCHANGED <<mounted, shot, generations, pollIntervalRef, timers, nextTimer, db,
                       nextSrv, fetches, subs, nSub, nTick, nSwitch, caps, dialog,
                       gridVars, nRestore>>

\* the user confirms: the dialog closes and calls the callback
ConfirmYes ==
    /\ confirm.open
    /\ confirm' = NoConfirm
    /\ RestoreCallback(confirm.gen)

\* the user declines: the dialog closes and calls nothing
ConfirmNo ==
    /\ confirm.open
    /\ confirm' = NoConfirm
    /\ last' = Step("declined", "confirm", FALSE)
    /\ UNCHANGED <<mounted, shot, generations, pollIntervalRef, timers, nextTimer, now,
                   db, nextSrv, fetches, subs, nSub, nTick, nSwitch, caps, dialog,
                   gridVars, inputs, restores, nRestore>>

\* the fetchFile a callback awaits has settled
RestoreFetched(p) ==
    \E t \in ClockReadings :
        LET ran == RestoreResume(inputs, p, t) IN
        /\ p \in restores
        /\ now' = t
        /\ SetInputs(ran.inp)
        /\ restores' = (restores \ {p}) \cup { Numbered(q, p.n) : q \in ran.next }
        /\ last' = Step(IF ran.next = {} THEN "restored" ELSE "restoring", p.pc, FALSE)
        /\ UNCHANGED <<mounted, shot, generations, pollIntervalRef, timers, nextTimer, db,
                       nextSrv, fetches, subs, nSub, nTick, nSwitch, caps, dialog,
                       gridVars, confirm, nRestore>>

\* the shot of the automatic runs
AutoUrls == ShotUrls("s.png", <<"b1.png", "b2.png">>, "style.png")

AutoEdits ==
    ModeEdits({"automatic"})
      \cup { <<"selectedAutoTabs", tabs>> :
               tabs \in {<<>>, <<"storyboard">>, <<"background">>,
                         <<"storyboard", "background">>} }
      \cup { <<"autoStoryboardFile", Upload("storyboard-upload.png")>>,
             <<"autoBackgroundFile", Upload("background-upload.png")>>,
             <<"selectedBackgroundUrl", "b2.png">> }

ManualEdits ==
    ModeEdits({"manual", "angles"}) \cup { <<"prompt", "a cat">>,
                                 <<"refImages", <<Upload("reference.png")>> >> }

RestoreEdits == { <<"anglesAngle", "high">> }

FormCaps ==
    { Editing(Uses(Cap("auto", MaxSubmits - 1, MaxInFlight - 1, 0, 0, FALSE,
                       "newest_first", {"completed"}),
                   AutoEdits, {ErrQuota}), urls, 0) : urls \in {NoUrls, AutoUrls} }
    \cup
    { Editing(Uses(Cap("manual", MaxSubmits - 1, MaxInFlight - 1, 0, 0, FALSE,
                       "newest_first", {"completed"}),
                   ManualEdits, {ErrQuota}), NoUrls, 0),
      Editing(Uses(Cap("restore", 0, 0, 0, 0, TRUE, "newest_first", {"completed"}),
                   RestoreEdits, {ErrQuota}), NoUrls, MaxRestores) }

FormInit ==
    /\ mounted = TRUE
    /\ shot = "A"
    /\ generations = <<>>
    /\ pollIntervalRef = 0
    /\ timers = {}
    /\ nextTimer = 1
    /\ now = 0
    /\ db = InitRows
    /\ caps \in FormCaps
    /\ nextSrv = FirstNewSrv
    /\ subs = EmptyBag
    /\ nSub = 0
    /\ nTick = 0
    /\ nSwitch = 0
    /\ fetches = SetToBag({ [shotId |-> "A", from |-> "effect", timer |-> 0,
                             data |-> ServerList(InitRows, "A", caps.order)] })
    /\ last = Step("mount", "effect", FALSE)
    /\ dialog = NoDialog
    /\ backgroundGridResults = <<>>
    /\ isBackgroundGridModalOpen = FALSE
    /\ grids = EmptyBag
    /\ inputs = DefaultInputs
    /\ confirm = NoConfirm
    /\ restores = {}
    /\ nRestore = 0

FormNext ==
    \/ \E e \in caps.modes : SetInput(e[1], e[2])
    \/ HandleGenerate
    \/ \E s \in BagToSet(subs) : ServerCreate(s)
    \/ \E s \in BagToSet(subs) : ResolveSubmit(s)
    \/ \E f \in BagToSet(fetches) : DeliverFetch(f)
    \/ \E gen \in History : HandleRestore(gen)
    \/ ConfirmYes
    \/ ConfirmNo
    \/ \E p \in restores : RestoreFetched(p)
    \/ Unmount

FormSpec == FormInit /\ [][FormNext]_vars

----------------------------------------------------------------------------
(* A view that polls, stops and polls again: two submissions, two ticks    *)
(* and two fetches outstanding at once.                                    *)

\* the view has mounted on shot A for a run of one of the profiles
Mount(profiles) ==
    /\ mounted = TRUE
    /\ shot = "A"
    /\ generations = <<>>
    /\ pollIntervalRef = 0
    /\ timers = {}
    /\ nextTimer = 1
    /\ now = 0
    /\ db = InitRows
    /\ caps \in profiles
    /\ nextSrv = FirstNewSrv
    /\ subs = EmptyBag
    /\ nSub = 0
    /\ nTick = 0
    /\ nSwitch = 0
    /\ fetches = SetToBag({ [shotId |-> "A", from |-> "effect", timer |-> 0,
                             data |-> ServerList(InitRows, "A", caps.order)] })
    /\ last = Step("mount", "effect", FALSE)
    /\ dialog = NoDialog
    /\ backgroundGridResults = <<>>
    /\ isBackgroundGridModalOpen = FALSE
    /\ grids = EmptyBag
    /\ inputs = DefaultInputs
    /\ confirm = NoConfirm
    /\ restores = {}
    /\ nRestore = 0

RestartCaps ==
    { Editing(Uses(Cap("restart", MaxSubmits, MaxInFlight, MaxTicks, 0, FALSE,
                       "newest_first", {"completed"}),
                   ModeEdits({"automatic"}), {ErrQuota}), NoUrls, 0) }

RestartInit == Mount(RestartCaps)

RestartNext ==
    \/ \E e \in caps.modes : SetInput(e[1], e[2])
    \/ HandleGenerate
    \/ \E s \in BagToSet(subs) : ServerCreate(s)
    \/ \E r \in db : ServerFinish(r)
    \/ \E s \in BagToSet(subs) : ResolveSubmit(s)
    \/ \E t \in timers : TimerTick(t)
    \/ \E f \in BagToSet(fetches) : DeliverFetch(f)

RestartSpec == RestartInit /\ [][RestartNext]_vars

----------------------------------------------------------------------------
(* Progress: the intervals fire for as long as they run, every request is  *)
(* answered and every fetch succeeds.                                      *)

LiveCaps ==
    { Editing(Uses(Cap("live", MaxSubmits - 1, MaxInFlight, 0, 0, FALSE, "newest_first",
                       {"completed", "failed"}),
                   ModeEdits({"automatic"}), {ErrQuota}), NoUrls, 0) }

LiveInit == Mount(LiveCaps)

\* an interval fires, as often as it likes
PollTick(t) == IntervalCallback(t) /\ UNCHANGED nTick

\* a fetch succeeds
FetchSucceeds(f) == FetchSettles(f, TRUE)

LiveNext ==
    \/ \E e \in caps.modes : SetInput(e[1], e[2])
    \/ HandleGenerate
    \/ \E s \in BagToSet(subs) : ServerCreate(s)
    \/ \E r \in db : ServerFinish(r)
    \/ \E s \in BagToSet(subs) : ResolveSubmit(s)
    \/ \E t \in timers : PollTick(t)
    \/ \E f \in BagToSet(fetches) : FetchSucceeds(f)

\* the backend, the network and the running intervals do not stall; the
\* user owes nothing
LiveFairness ==
    /\ WF_vars(\E s \in BagToSet(subs) : ServerCreate(s))
    /\ WF_vars(\E r \in db : ServerFinish(r))
    /\ WF_vars(\E s \in BagToSet(subs) : ResolveSubmit(s))
    /\ WF_vars(\E t \in timers : PollTick(t))
    /\ WF_vars(\E f \in BagToSet(fetches) : FetchSucceeds(f))

LiveSpec == LiveInit /\ [][LiveNext]_vars /\ LiveFairness

----------------------------------------------------------------------------
(* The merge on its own: a polling view holding any small store, with two  *)
(* ticks' fetches outstanding that carry the same server list.             *)

\* the records a store may hold
StoreRecords ==
    { Gen(id, "A", st, c) : id \in {TempId(0), SrvId(1), SrvId(2)},
                            st \in {"pending", "completed"}, c \in 0..MaxClock }

\* the rows the backend may list
ListRecords == { r \in StoreRecords : r.id.ns = "srv" }

SeqsUpTo(S, n) == UNION { [1..k -> S] : k \in 0..n }

\* the stores of at most MaxStore records
Stores == SeqsUpTo(StoreRecords, MaxStore)

\* the server lists of at most MaxList rows: a row is listed once
ServerLists == { l \in SeqsUpTo(ListRecords, MaxList) : NoDupIds(l) }

MergeInit ==
    /\ mounted = TRUE
    /\ shot = "A"
    /\ generations \in Stores
    /\ pollIntervalRef = 1
    /\ timers = { [id |-> 1, shotId |-> "A"] }
    /\ nextTimer = 2
    /\ now = MaxClock
    /\ db = {}
    /\ caps = Editing(Uses(Cap("merge", 0, MaxInFlight, 0, 0, FALSE, "newest_first",
                               {"completed"}), {}, {}), NoUrls, 0)
    /\ nextSrv = FirstNewSrv
    /\ subs = EmptyBag
    /\ nSub = 0
    /\ nTick = 0
    /\ nSwitch = 0
    /\ \E data \in ServerLists :
         fetches = [f \in { [shotId |-> "A", from |-> "tick", timer |-> 1, data |-> data] }
                      |-> 2]
    /\ last = Step("tick", "tick", FALSE)
    /\ dialog = NoDialog
    /\ backgroundGridResults = <<>>
    /\ isBackgroundGridModalOpen = FALSE
    /\ grids = EmptyBag
    /\ inputs = DefaultInputs
    /\ confirm = NoConfirm
    /\ restores = {}
    /\ nRestore = 0

MergeNext == \E f \in BagToSet(fetches) : DeliverFetch(f)

MergeSpec == MergeInit /\ [][MergeNext]_vars

----------------------------------------------------------------------------
(* Properties *)

\* this step is the delivery of the outstanding fetch f
Delivered(f) == fetches' = fetches (-) SetToBag({f})

\* this step is the settling of the outstanding submission s
Resolved(s) == subs' = subs (-) SetToBag({s})

\* this step puts the fetch g in flight
Issued(g) == CopiesIn(g, fetches') > CopiesIn(g, fetches)

HasTemp(s) == \E i \in DOMAIN s : s[i].id.ns = "temp"

\* C1: a successful fetch-and-merge keeps every local pending record whose
\* id the fetched list lacks: after the merge the store still holds, under
\* that id, a pending record of the store before.
C1_PendingPreserved ==
    [][ \A f \in BagToSet(fetches) :
          (Delivered(f) /\ last'.op = "merge" /\ mounted) =>
             \A i \in DOMAIN generations :
                (generations[i].status = "pending" /\ generations[i].id \notin Ids(f.data)) =>
                   \E j \in DOMAIN generations' :
                      /\ generations'[j].id = generations[i].id
                      /\ generations'[j].status = "pending"
                      /\ generations'[j] \in Range(generations) ]_vars

\* a merge with an empty server list has left the temp record as the whole store
C1_Witness ==
    /\ last.op = "merge"
    /\ mounted
    /\ Len(generations) = 1
    /\ generations[1].id.ns = "temp"
    /\ generations[1].status = "pending"

\* C2: the store that results from a merge holds no two records with the
\* same id.
C2_NoDuplicateIds ==
    (last.op = "merge" /\ mounted) => NoDupIds(generations)

\* a merge that kept a temp record beside server rows
C2_Witness ==
    /\ last.op = "merge"
    /\ mounted
    /\ HasTemp(generations)
    /\ \E i \in DOMAIN generations : generations[i].id.ns = "srv"

\* C3: after every merge the store is ordered by created_at, newest first
\* (stated without the strictness, which ties alone would refute).
C3_SortedAfterMerge ==
    (last.op = "merge" /\ mounted) => SortedDesc(generations)

\* C4: after the id upgrade the store holds no record with the temp id and
\* exactly one record with the server-issued id (the claim's "never
\* duplicated").
C4_UpgradeNeverDuplicates ==
    [][ \A s \in BagToSet(subs) :
          (Resolved(s) /\ s.resp = "ok" /\ mounted) =>
             /\ s.tempId \notin Ids(generations')
             /\ Cardinality({ j \in DOMAIN generations' : generations'[j].id = s.gid }) = 1
      ]_vars

\* C5: a tick takes the poller from polling to idle if and only if the store
\* holds no pending record after the tick's merge.
C5_StopsIffNoPendingInStore ==
    [][ \A f \in BagToSet(fetches) :
          (Delivered(f) /\ f.from = "tick" /\ last'.op = "merge"
              /\ pollIntervalRef # 0 /\ mounted) =>
             ((pollIntervalRef' = 0) <=> ~AnyPending(generations')) ]_vars

\* C6: once the backend has answered a tick's fetch with a list that holds no
\* pending row, the interval of that tick fires no further tick; and a tick
\* whose flag is false leaves the scheduler idle.
C6_NoTickAfterCompleted ==
    [][ /\ \A f \in BagToSet(fetches) :
             (f.from = "tick" /\ ~AnyPending(f.data)) =>
                ~ \E g \in BagToSet(fetches') :
                     g.from = "tick" /\ g.timer = f.timer /\ Issued(g)
        /\ \A f \in BagToSet(fetches) :
             (Delivered(f) /\ f.from = "tick" /\ ~last'.ret) => pollIntervalRef' = 0
      ]_vars

\* C7: a fetch that fails during a poll tick leaves the store unchanged and
\* the poller polling.
C7_FailedTickKeepsPolling ==
    [][ \A f \in BagToSet(fetches) :
          (Delivered(f) /\ f.from = "tick" /\ last'.op = "fetchfail"
              /\ pollIntervalRef # 0) =>
             /\ generations' = generations
             /\ pollIntervalRef' = pollIntervalRef ]_vars

\* C8: a failed fetch leaves the store as it was and loadGenerations returns
\* false: a tick that gets it stops the poller.
C8_FailedFetchReportsFalse ==
    [][ \A f \in BagToSet(fetches) :
          (Delivered(f) /\ last'.op = "fetchfail") =>
             /\ generations' = generations
             /\ last'.ret = FALSE
             /\ (f.from = "tick" => pollIntervalRef' = 0) ]_vars

\* a fetch has failed while the store held a pending record
C8_Witness ==
    /\ last.op = "fetchfail"
    /\ last.from = "tick"
    /\ AnyPending(generations)

\* C9: at most one interval is active, the one pollIntervalRef holds, and
\* startPolling while polling changes neither the handle nor the intervals.
C9_AtMostOneTimer ==
    [][ /\ Cardinality(timers') <= 1
        /\ \A t \in timers' : t.id = pollIntervalRef'
        /\ \A f \in BagToSet(fetches) :
             (Delivered(f) /\ f.from = "submit" /\ pollIntervalRef # 0) =>
                /\ pollIntervalRef' = pollIntervalRef
                /\ timers' = timers
                /\ nextTimer' = nextTimer ]_vars

\* both submissions have run startPolling and the first interval is still the
\* only one
C9_Witness ==
    /\ last.from = "submit"
    /\ last.op \in {"merge", "fetchfail"}
    /\ nextSrv = FirstNewSrv + 2
    /\ subs = EmptyBag
    /\ \A f \in BagToSet(fetches) : f.from # "submit"
    /\ pollIntervalRef = 1
    /\ nextTimer = 2
    /\ Cardinality(timers) = 1

\* C10: after a shot change the store holds no record of another shot and
\* no interval is polling another shot.
C10_ShotChangeResets ==
    last.op = "switch" =>
        /\ \A i \in DOMAIN generations : generations[i].shot_id = shot
        /\ \A t \in timers : t.shotId = shot

----------------------------------------------------------------------------
(* Properties of the concurrency, error handling and frame of a submission *)

\* this step makes the submission s
Submitted(s) ==
    /\ BagCardinality(subs') = BagCardinality(subs) + 1
    /\ CopiesIn(s, subs') > CopiesIn(s, subs)

\* this step makes the grid call g
GridCalled(g) == CopiesIn(g, grids') > CopiesIn(g, grids)

\* this step is the settling of the grid call g
GridResolved(g) == grids' = grids (-) SetToBag({g})

\* the number of fetches in flight that interval ticks issued
TickFetchesInFlight ==
    BagCardinality([f \in { x \in BagToSet(fetches) : x.from = "tick" } |-> fetches[f]])

\* s without its i-th record
Without(s, i) == SubSeq(s, 1, i - 1) \o SubSeq(s, i + 1, Len(s))

\* C11: the answer to a fetch requested for one shot that arrives while another
\* shot is open does not change the store.
C11_StaleFetchDiscarded ==
    [][ \A f \in BagToSet(fetches) :
          (Delivered(f) /\ f.shotId # shot) => generations' = generations ]_vars

\* C12: teardown stops the interval, and once the view is torn down no
\* interval is active, no tick fires and the store does not change, whatever
\* arrives afterwards.
C12_TeardownCancels ==
    [][ /\ (mounted /\ ~mounted') => (timers' = {} /\ pollIntervalRef' = 0)
        /\ ~mounted => /\ timers' = {}
                       /\ pollIntervalRef' = 0
                       /\ last'.op # "tick"
                       /\ generations' = generations ]_vars

\* C13: at most one fetch issued by the poller is in flight at any time.
C13_TicksDoNotOverlap == TickFetchesInFlight <= 1

\* C14: a rejected submission removes its optimistic record and nothing else:
\* the store is the store before with that one record taken out, the other
\* records and their order kept (the pre-submission store, when nothing else
\* touched the store in between).
C14_RollbackRestoresStore ==
    [][ \A s \in BagToSet(subs) :
          (Resolved(s) /\ s.resp = "reject" /\ mounted) =>
             \E i \in DOMAIN generations :
                /\ generations[i] = s.tempGen
                /\ generations' = Without(generations, i) ]_vars

\* C15 as claimed: a submission rejected with detail "quota exceeded" shows
\* exactly the message "quota exceeded".
C15_MessageIsExactlyDetail ==
    [][ \A s \in BagToSet(subs) :
          (Resolved(s) /\ s.resp = "reject" /\ s.err.detail = "quota exceeded") =>
             dialog'.message = "quota exceeded" ]_vars

\* C15 amended: a rejected submission shows "Failed to start generation: "
\* followed by the payload's detail when it has one, else by the error's
\* message when it has one, else by "Unknown error".
C15_MessageIsPrefixedDetail ==
    [][ \A s \in BagToSet(subs) :
          (Resolved(s) /\ s.resp = "reject") =>
             /\ dialog'.title = "Error"
             /\ dialog'.message =
                   "Failed to start generation: " \o
                       (IF s.err.detail # "" THEN s.err.detail
                        ELSE IF s.err.message # "" THEN s.err.message
                        ELSE "Unknown error") ]_vars

\* the quota rejection has been shown
C15_Witness ==
    /\ last.op = "rollback"
    /\ dialog.message = "Failed to start generation: quota exceeded"

\* C16: once a submission has resolved, with any outcome, the store holds no
\* record with its temp id.
C16_NoTempAfterResolve ==
    [][ \A s \in BagToSet(subs) :
          (Resolved(s) /\ mounted) => s.tempId \notin Ids(generations') ]_vars

\* C17: a submission that is made puts exactly one record at the head of the
\* store (a temp id, pending, no image, the open shot) and leaves every
\* record the store held as it was.
C17_OneOptimisticInsertion ==
    [][ (\E s \in BagToSet(subs') : Submitted(s)) =>
          /\ Len(generations') = Len(generations) + 1
          /\ generations'[1].id.ns = "temp"
          /\ generations'[1].status = "pending"
          /\ generations'[1].image_url = ""
          /\ generations'[1].shot_id = shot
          /\ \A i \in DOMAIN generations : generations'[i + 1] = generations[i] ]_vars

\* an optimistic record has been put in front of a store that held records
C17_Witness ==
    /\ last.op = "insert"
    /\ Len(generations) >= 2
    /\ generations[1].id.ns = "temp"

\* C18: a submission made on one shot that resolves while another shot is
\* open puts no record of its shot into the store, issues no fetch for its
\* shot, and no interval is started for a shot that is not open.
C18_NoCrossShotEffects ==
    [][ /\ \A s \in BagToSet(subs) :
             (Resolved(s) /\ s.shot # shot /\ mounted) =>
                /\ \A g \in Range(generations') :
                      g.shot_id = s.shot => g \in Range(generations)
                /\ ~ \E g \in BagToSet(fetches') : Issued(g) /\ g.shotId = s.shot
        /\ \A t \in timers' \ timers : t.shotId = shot ]_vars

\* C19: a submission that fails validation issues no call, leaves the store
\* and the poller as they were, and shows a message.
C19_ValidationBlocksWithMessage ==
    [][ (last'.op = "blocked" /\ last' # last) =>
          /\ UNCHANGED <<generations, pollIntervalRef, timers, subs, fetches, grids>>
          /\ dialog'.message # "" ]_vars

\* C20: a background_grid submission, from the call to its result, leaves
\* the store, the submissions, the fetches and the poller as they were, and
\* a successful one hands its URLs to the open results modal.
C20_GridLeavesStoreAndPoller ==
    [][ \A g \in BagToSet(grids) \cup BagToSet(grids') :
          (GridCalled(g) \/ GridResolved(g)) =>
             /\ UNCHANGED <<generations, subs, fetches, pollIntervalRef, timers, nextTimer>>
             /\ (last'.op = "gridresults" /\ mounted) =>
                   /\ backgroundGridResults' = GridUrls
                   /\ isBackgroundGridModalOpen' ]_vars

\* a grid call has handed its URLs over while the store held records
C20_Witness ==
    /\ last.op = "gridresults"
    /\ mounted
    /\ isBackgroundGridModalOpen
    /\ backgroundGridResults = GridUrls
    /\ Len(generations) >= 1

----------------------------------------------------------------------------
(* Properties of the merge as a function of the store and the server list *)

\* the places of prev whose record is pending with an id data lacks
MissingAt(prev, data) ==
    { i \in DOMAIN prev : prev[i].status = "pending"
                          /\ \A j \in DOMAIN data : data[j].id # prev[i].id }

\* C21: a merge with no local pending record missing from the server list
\* makes the store that list; otherwise the store is ordered newest first,
\* holds each id of the missing pending records and of the list once, and
\* under an id the list's row, or else the last missing pending record of
\* that id.
C21_MergeMatchesReference ==
    [][ \A f \in BagToSet(fetches) :
          (Delivered(f) /\ last'.op = "merge") =>
             LET miss == MissingAt(generations, f.data)
             IN IF miss = {} THEN generations' = f.data
                ELSE /\ SortedDesc(generations')
                     /\ NoDupIds(generations')
                     /\ Ids(generations') = { generations[i].id : i \in miss } \cup Ids(f.data)
                     /\ \A j \in DOMAIN generations' :
                           \/ generations'[j] \in Range(f.data)
                           \/ \E i \in miss :
                                 /\ generations'[j] = generations[i]
                                 /\ \A k \in miss :
                                       generations[k].id = generations[i].id => k <= i ]_vars

\* a merge has ordered a missing pending temp record among the list's rows
C21_Witness ==
    /\ last.op = "merge"
    /\ BagCardinality(fetches) = 1
    /\ \E i \in DOMAIN generations :
          generations[i] = Gen(TempId(0), "A", "pending", 1)
    /\ \E i \in DOMAIN generations : generations[i].id.ns = "srv"

\* C22: a second merge of the same server list leaves the store as the
\* first merge left it.
C22_MergeIdempotent ==
    [][ (last.op = "merge" /\ last'.op = "merge") => generations' = generations ]_vars

\* both ticks have merged the same list (the poller is still polling) into a
\* store that holds two records with the same created_at
C22_Witness ==
    /\ fetches = EmptyBag
    /\ pollIntervalRef # 0
    /\ last.op = "merge"
    /\ \E i, j \in DOMAIN generations :
          /\ i # j
          /\ generations[i].created_at = generations[j].created_at
          /\ generations[i].id.ns = "temp"

\* C23: loadGenerations returns true exactly when the fetched list holds a
\* pending row, whatever the store holds.
C23_FlagFromServerList ==
    [][ \A f \in BagToSet(fetches) :
          (Delivered(f) /\ last'.op = "merge") =>
             (last'.ret <=> \E i \in DOMAIN f.data : f.data[i].status = "pending") ]_vars

\* a merge has returned false while the store keeps a local pending record
C23_Witness ==
    /\ last.op = "merge"
    /\ last.ret = FALSE
    /\ AnyPending(generations)

\* C24: on one shot, a step other than a rollback keeps every id of the
\* store, an upgraded temp id being kept as its server id.
C24_NeverDeleted ==
    [][ (mounted /\ nSwitch' = 0 /\ last'.op # "rollback") =>
          \A i \in DOMAIN generations :
             \/ generations[i].id \in Ids(generations')
             \/ \E s \in BagToSet(subs) :
                   /\ Resolved(s) /\ s.resp = "ok"
                   /\ generations[i].id = s.tempId
                   /\ s.gid \in Ids(generations') ]_vars

----------------------------------------------------------------------------
(* Properties of the request a submission builds and of restoring          *)

\* what a tab gives: its uploaded file when selected, else the fallback URL
Contribution(isSelected, upload, fallback) ==
    [file |-> IF isSelected THEN upload ELSE NoFile,
     url |-> IF isSelected /\ upload = NoFile THEN fallback ELSE ""]

FirstOf(urls) == IF Len(urls) > 0 THEN urls[1] ELSE ""

\* the request s carries exactly the contributions sb and bg
Carries(s, sb, bg) ==
    /\ s.payload.auto_storyboard = sb.file
    /\ s.payload.auto_storyboard_url = sb.url
    /\ s.payload.auto_background = bg.file
    /\ s.payload.auto_background_url = bg.url
    /\ ~(s.payload.auto_storyboard # NoFile /\ s.payload.auto_storyboard_url # "")
    /\ ~(s.payload.auto_background # NoFile /\ s.payload.auto_background_url # "")

\* C25 as stated: in automatic mode the request carries, for the storyboard
\* and the background, the uploaded file of a selected tab, else the shot's
\* storyboard_url or the first of its background_urls, else nothing; nothing
\* for an unselected tab; never a file and a URL for one input.
C25_TabResolution ==
    [][ \A s \in BagToSet(subs') :
          (Submitted(s) /\ inputs.generationMode = "automatic") =>
             Carries(s,
                     Contribution(InSeq("storyboard", inputs.selectedAutoTabs),
                                  inputs.autoStoryboardFile, caps.shot_urls.storyboard_url),
                     Contribution(InSeq("background", inputs.selectedAutoTabs),
                                  inputs.autoBackgroundFile,
                                  FirstOf(caps.shot_urls.background_urls))) ]_vars

\* C25 amended: as stated, but the background's fallback URL is the
\* background the user picked when one is picked, and only otherwise the
\* first of the shot's background_urls.
C25_TabResolutionPickedFirst ==
    [][ \A s \in BagToSet(subs') :
          (Submitted(s) /\ inputs.generationMode = "automatic") =>
             Carries(s,
                     Contribution(InSeq("storyboard", inputs.selectedAutoTabs),
                                  inputs.autoStoryboardFile, caps.shot_urls.storyboard_url),
                     Contribution(InSeq("background", inputs.selectedAutoTabs),
                                  inputs.autoBackgroundFile,
                                  IF inputs.selectedBackgroundUrl # ""
                                  THEN inputs.selectedBackgroundUrl
                                  ELSE FirstOf(caps.shot_urls.background_urls))) ]_vars

\* requests were sent in automatic mode with both tabs selected: one
\* without uploads that falls back to s.png and b1.png, as in the example
C25_Witness ==
    \E s \in BagToSet(subs) :
       /\ s.payload.mode = "automatic"
       /\ s.payload.auto_storyboard = NoFile
       /\ s.payload.auto_background = NoFile
       /\ s.payload.auto_storyboard_url = "s.png"
       /\ s.payload.auto_background_url = "b1.png"

Confirming(gen) ==
    /\ confirm.open /\ ~confirm'.open
    /\ confirm.gen = gen
    /\ last'.from = "confirm" /\ last'.op # "declined"

\* this step ends the restore of gen: its callback returns
Completing(gen) ==
    /\ last'.op = "restored"
    /\ \/ Confirming(gen)
       \/ \E p \in restores : p \notin restores' /\ p.gen = gen

\* C27: asking for a restore and declining it change no input and start no
\* reference fetch; a fetch starts only in the step of the user's yes or
\* as the next one of a restore already going.
C27_NothingWithoutConfirmation ==
    [][ /\ last'.op \in {"ask", "declined"} =>
              inputs' = inputs /\ restores' = restores
        /\ (restores = {} /\ restores' # {}) =>
              \E gen \in History : Confirming(gen) ]_vars

\* after a restore that was confirmed and has put a prompt into the form, a
\* second restore was asked for and declined
C27_Witness ==
    /\ last.op = "declined"
    /\ nRestore = 2
    /\ restores = {}
    /\ inputs.prompt # ""

\* the references of refs that can be fetched, as the files restored
Fetchable(refs) ==
    LET ok == SelectSeq(refs, LAMBDA ref : UrlAnswer(ref.url) = 200)
    IN [i \in DOMAIN ok |-> File(ok[i].name, ok[i].url, 200)]

\* C28: the restore of a manual record ends with the reference files of
\* exactly the references whose fetch succeeded, in the record's order: one
\* whose URL answers 404 or cannot be reached is dropped.
C28_FailedReferencesDropped ==
    [][ \A gen \in History :
          (mounted /\ Completing(gen) /\ gen.ref_data.present
             /\ gen.ref_data.mode = "manual") =>
             inputs'.refImages = Fetchable(gen.ref_data.manual_refs) ]_vars

\* the tab ids the restore of an automatic record selects
RestoredTabs(gen, tabs) ==
    (IF gen.ref_data.auto_refs.storyboard # "" THEN <<"storyboard">> ELSE <<>>)
      \o <<"background">> \o [i \in DOMAIN tabs |-> tabs[i].id]

\* C29: the restore of an automatic record ends with as many character tabs
\* as the record has characters, zero included, and with the selected tabs
\* being storyboard when the record has one, background, and every
\* character tab.
C29_TabsMatchCharacters ==
    [][ \A gen \in History :
          (mounted /\ Completing(gen) /\ gen.ref_data.present
             /\ gen.ref_data.mode = "automatic") =>
             /\ Len(inputs'.characterTabs) = Len(gen.ref_data.auto_refs.characters)
             /\ inputs'.selectedAutoTabs = RestoredTabs(gen, inputs'.characterTabs) ]_vars

\* C30: the restore of an angles record sets the four text fields to the
\* record's values, "" for an absent one and for absent angles_inputs, and
\* ends with no anchor or target file when the record has no such
\* reference.
C30_AnglesFieldsFromRecord ==
    [][ \A gen \in History :
          (mounted /\ gen.ref_data.present /\ gen.ref_data.mode = "angles") =>
             /\ Confirming(gen) =>
                   /\ inputs'.anglesAngle = gen.ref_data.angles_inputs.angle
                   /\ inputs'.anglesLength = gen.ref_data.angles_inputs.length
                   /\ inputs'.anglesFocus = gen.ref_data.angles_inputs.focus
                   /\ inputs'.anglesBackground = gen.ref_data.angles_inputs.background
             /\ Completing(gen) =>
                   /\ gen.ref_data.auto_refs.angles_anchor = "" =>
                         inputs'.anglesAnchorFile = NoFile
                   /\ gen.ref_data.auto_refs.angles_target = "" =>
                         inputs'.anglesTargetFile = NoFile ]_vars

----------------------------------------------------------------------------
(* Properties of the scheduler on its own, of progress and of overlaps     *)

\* C31: stopPolling leaves, from every state of the poller, no timer and an
\* idle scheduler, and a second stopPolling changes nothing more.
C31_StopClearsAndIsIdempotent ==
    /\ StopPolling(Poller).ref = 0
    /\ StopPolling(Poller).timers = {}
    /\ StopPolling(StopPolling(Poller)) = StopPolling(Poller)
    /\ last.op = "unmount" => pollIntervalRef = 0 /\ timers = {}

\* the view was unmounted while its interval, which had not fired yet, was
\* running: stopPolling has cleared it
C31_Witness ==
    /\ last.op = "unmount"
    /\ nTick = 0
    /\ nextTimer > 1
    /\ pollIntervalRef = 0
    /\ timers = {}

\* C33: once the store shows a record as completed or failed, applying a
\* fetch response, a late one too, keeps the record and does not show it
\* pending again.
C33_TerminalStaysTerminal ==
    [][ (mounted /\ nSwitch' = 0 /\ last'.op \in {"merge", "fetchfail"}) =>
          \A i \in DOMAIN generations :
             generations[i].status \in {"completed", "failed"} =>
                \E j \in DOMAIN generations' :
                   /\ generations'[j].id = generations[i].id
                   /\ generations'[j].status # "pending" ]_vars

\* C35: a submission gets a temp id that no unresolved submission holds,
\* also when both read the same clock value.
C35_DistinctTempIds ==
    [][ \A s \in BagToSet(subs') :
          Submitted(s) => \A other \in BagToSet(subs) : other.tempId # s.tempId ]_vars

\* C36: the settling of a successful submission upgrades the id, calls
\* loadGenerations and leaves the poller alone; when that loadGenerations
\* returns, failed or not, pending rows or not, an interval is running.
C36_PollingAfterPostSubmitFetch ==
    [][ /\ \A s \in BagToSet(subs) :
              (Resolved(s) /\ s.resp \in {"ok", "ok_noid"}) =>
                 /\ \E f \in BagToSet(fetches') :
                       Issued(f) /\ f.from = "submit" /\ f.shotId = s.shot
                 /\ (mounted /\ s.resp = "ok") => s.gid \in Ids(generations')
                 /\ pollIntervalRef' = pollIntervalRef /\ timers' = timers
        /\ \A f \in BagToSet(fetches) :
              (Delivered(f) /\ f.from = "submit") =>
                 /\ pollIntervalRef' # 0
                 /\ \E t \in timers' :
                       /\ t.id = pollIntervalRef'
                       /\ pollIntervalRef = 0 => t.shotId = f.shotId ]_vars

\* the post-submit fetch of a successful submission has failed with the
\* poller idle before it, and an interval is running
C36_Witness ==
    /\ mounted
    /\ last.op = "fetchfail"
    /\ last.from = "submit"
    /\ pollIntervalRef = 1
    /\ nextTimer = 2

\* C34: the callback of a tick stops only the interval that fired it: when
\* its loadGenerations returns while another interval is the running one,
\* that interval keeps running.
C34_TickStopsOwnTimerOnly ==
    [][ \A f \in BagToSet(fetches) :
          (Delivered(f) /\ f.from = "tick" /\ pollIntervalRef # 0
             /\ pollIntervalRef # f.timer) =>
             pollIntervalRef' = pollIntervalRef /\ timers' = timers ]_vars

\* the ids the backend gives in a run
ServerIds == { SrvId(k) : k \in 1..(FirstNewSrv + MaxSubmits) }

\* C32: a generation of the open shot that the backend has completed or
\* failed is eventually shown by the store with that status.
C32_EventuallyTerminal ==
    \A id \in ServerIds : \A st \in {"completed", "failed"} :
       (\E r \in db : r.id = id /\ r.shot_id = shot /\ r.status = st)
          ~> (\E i \in DOMAIN generations :
                 generations[i].id = id /\ generations[i].status = st)

\* the files fetchFile gives for refs, in order
RestoredFiles(refs) ==
    LET got == SelectSeq(refs, LAMBDA ref : FetchFile(ref.url, ref.name) # NoFile)
    IN [i \in DOMAIN got |-> FetchFile(got[i].url, got[i].name)]

\* the file fetchFile gives for an optional reference
RestoredFile(url, name) == IF url = "" THEN NoFile ELSE FetchFile(url, name)

\* C37: when no restore is running any more, the form holds the inputs of
\* the record confirmed last, the one whose prompt the form shows: its
\* mode, its manual reference files, its anchor and target.
C37_LastConfirmedWins ==
    \A gen \in History :
       (mounted /\ restores = {} /\ inputs.prompt = gen.prompt /\ gen.ref_data.present) =>
          /\ inputs.generationMode = gen.ref_data.mode
          /\ gen.ref_data.mode = "manual" =>
                inputs.refImages = RestoredFiles(gen.ref_data.manual_refs)
          /\ gen.ref_data.mode = "angles" =>
                /\ inputs.anglesAnchorFile =
                      RestoredFile(gen.ref_data.auto_refs.angles_anchor, "restored_anchor.png")
                /\ inputs.anglesTargetFile =
                      RestoredFile(gen.ref_data.auto_refs.angles_target, "restored_target.png")

\* C38: a request carries the inputs of its mode only: reference files in
\* manual mode, automatic files and URLs in automatic and storyboard
\* enhancer mode, angle texts, anchor and target in angles mode.
C38_PayloadOfModeOnly ==
    [][ \A s \in BagToSet(subs') :
          Submitted(s) =>
             /\ s.payload.mode # "manual" => s.payload.ref_images = <<>>
             /\ s.payload.mode \notin {"automatic", "storyboard_enhancer"} =>
                   /\ s.payload.auto_storyboard = NoFile
                   /\ s.payload.auto_storyboard_url = ""
                   /\ s.payload.auto_background = NoFile
                   /\ s.payload.auto_background_url = ""
                   /\ s.payload.auto_characters = <<>>
                   /\ s.payload.auto_characters_urls = <<>>
             /\ s.payload.mode # "angles" =>
                   /\ s.payload.angles_angle = ""
                   /\ s.payload.angles_length = ""
                   /\ s.payload.angles_focus = ""
                   /\ s.payload.angles_background = ""
                   /\ s.payload.angles_anchor = NoFile
                   /\ s.payload.angles_target = NoFile ]_vars

====
